---- MODULE Spec2Model ----
(***************************************************************************)
(* Model of crabwalk's named-wildcard engine (src/src/wildcard.rs) and of  *)
(* the rule that consumes it (src/src/workflow.rs).                        *)
(*                                                                         *)
(* Strings are sequences of one-character strings.  The regex crate is the *)
(* engine both files rely on: its escape, its parser (capture-group        *)
(* numbering and naming rules included) and its leftmost-first matcher are *)
(* modelled for the syntax the templates below can produce.                *)
(***************************************************************************)
EXTENDS Integers, Sequences, FiniteSets, TLC

(***************************************************************************)
(* Characters                                                              *)
(***************************************************************************)
Digits == {"0", "1", "2", "3", "4", "5", "6", "7", "8", "9"}

Letters == {"a", "b", "d", "w", "x", "y", "P"}

\* \s of the regex crate, restricted to the characters of the model
Spaces == {" ", "\n"}

\* \w of the regex crate, restricted to the characters of the model
WordChars == Letters \cup Digits \cup {"_"}

\* every character a template, a candidate or a compiled expression can hold
AllChars ==
  WordChars \cup Spaces \cup
  {"{", "}", ",", ".", "/", "\\", "(", ")", "|", "+", "*", "?", "^", "$", "<", ">", ":"}

RECURSIVE Concat(_)
\* concatenation of a sequence of strings
Concat(ss) == IF ss = <<>> THEN <<>> ELSE Head(ss) \o Concat(Tail(ss))

\* Placeholder scanner: wildcard_regex(), whose text (verbose mode) is
\*   \{ \s* (?P<name> \w+ ) \s*
\*      ( \s* , \s* (?<constraint> ( [^{}]+ | \{ \d+ ( , \d+ )? \} ) * ) \s* )? \s* \}
\* Every quantifier is greedy and no shorter choice can succeed where the
\* greedy one fails, so the leftmost-first match is the greedy walk.
RECURSIVE SkipIn(_, _, _)
\* the first index >= i of s whose character is not in set cs (greedy cs*)
SkipIn(s, i, cs) ==
  IF i <= Len(s) /\ s[i] \in cs THEN SkipIn(s, i + 1, cs) ELSE i

\* \{\d+(,\d+)?\} at index i: the index after its closing brace, or 0
RepetitionEnd(s, i) ==
  IF i > Len(s) \/ s[i] # "{" THEN 0
  ELSE LET d1 == SkipIn(s, i + 1, Digits) IN
       IF d1 = i + 1 \/ d1 > Len(s) THEN 0
       ELSE IF s[d1] = "}" THEN d1 + 1
       ELSE IF s[d1] = "," THEN
              LET d2 == SkipIn(s, d1 + 1, Digits) IN
              IF d2 > d1 + 1 /\ d2 <= Len(s) /\ s[d2] = "}" THEN d2 + 1 ELSE 0
       ELSE 0

RECURSIVE ConstraintEnd(_, _)
\* ([^{}]+ | \{\d+(,\d+)?\})* from index i, greedy: the index after it
ConstraintEnd(s, i) ==
  IF i > Len(s) THEN i
  ELSE IF s[i] \notin {"{", "}"} THEN ConstraintEnd(s, i + 1)
  ELSE IF RepetitionEnd(s, i) # 0 THEN ConstraintEnd(s, RepetitionEnd(s, i))
  ELSE i

NoCapture == [ok |-> FALSE, start |-> 0, end |-> 0, name |-> <<>>,
              has |-> FALSE, constraint |-> <<>>]

\* one match of wildcard_regex() starting exactly at index i (end is exclusive)
ScanAt(s, i) ==
  IF i > Len(s) \/ s[i] # "{" THEN NoCapture
  ELSE
    LET n0 == SkipIn(s, i + 1, Spaces)
        n1 == SkipIn(s, n0, WordChars)
        a  == SkipIn(s, n1, Spaces)
    IN
    IF n1 = n0 \/ a > Len(s) THEN NoCapture
    ELSE IF s[a] = "," THEN
      LET c0 == SkipIn(s, a + 1, Spaces)
          c1 == ConstraintEnd(s, c0)
      IN IF c1 <= Len(s) /\ s[c1] = "}"
         THEN [ok |-> TRUE, start |-> i, end |-> c1 + 1,
               name |-> SubSeq(s, n0, n1 - 1),
               has |-> TRUE, constraint |-> SubSeq(s, c0, c1 - 1)]
         ELSE NoCapture
    ELSE IF s[a] = "}"
      THEN [ok |-> TRUE, start |-> i, end |-> a + 1,
            name |-> SubSeq(s, n0, n1 - 1),
            has |-> FALSE, constraint |-> <<>>]
    ELSE NoCapture

RECURSIVE CapturesIter(_, _)
\* wildcard_regex().captures_iter(s): the non-overlapping matches from index i on
CapturesIter(s, i) ==
  IF i > Len(s) THEN <<>>
  ELSE IF ScanAt(s, i).ok
       THEN <<ScanAt(s, i)>> \o CapturesIter(s, ScanAt(s, i).end)
       ELSE CapturesIter(s, i + 1)

(***************************************************************************)
(* regex::escape                                                           *)
(***************************************************************************)
MetaChars ==
  {"\\", ".", "+", "*", "?", "(", ")", "|", "[", "]", "{", "}", "^", "$", "#", "&", "-", "~"}

RECURSIVE Escape(_)
Escape(s) ==
  IF s = <<>> THEN <<>>
  ELSE (IF Head(s) \in MetaChars THEN <<"\\", Head(s)>> ELSE <<Head(s)>>)
       \o Escape(Tail(s))

(***************************************************************************)
(* Wildcard::new, up to the expression text it hands to regex::Regex::new  *)
(***************************************************************************)
\* format!("(?P<{name}>{})", constraint)
NamedGroup(name, constraint) ==
  <<"(", "?", "P", "<">> \o name \o <<">">> \o constraint \o <<")">>

\* format!("({constraint})")
PlainGroup(constraint) == <<"(">> \o constraint \o <<")">>

\* map_or(".+", ..): the constraint of a first occurrence
DefaultConstraint == <<".", "+">>

RECURSIVE NewLoopAccepting(_, _, _, _)
\* NewLoop without the check of a repeated name's constraint
NewLoopAccepting(pattern, caps, k, st) ==
  IF k > Len(caps) THEN st
  ELSE
    LET cap  == caps[k]
        lit  == Escape(SubSeq(pattern, st.last, cap.start - 1))
        name == cap.name
    IN
    IF name \in DOMAIN st.constraints
    THEN NewLoopAccepting(pattern, caps, k + 1,
           [st EXCEPT !.re = st.re \o lit \o PlainGroup(st.constraints[name]),
                      !.names = [st.names EXCEPT ![name] = Append(@, k - 1)],
                      !.last = cap.end])
    ELSE
      LET constraint == IF cap.has THEN cap.constraint ELSE DefaultConstraint IN
      NewLoopAccepting(pattern, caps, k + 1,
        [st EXCEPT !.re = st.re \o lit \o NamedGroup(name, constraint),
                   !.constraints = (name :> constraint) @@ st.constraints,
                   !.names = (name :> <<>>) @@ st.names,
                   !.last = cap.end])

RECURSIVE NewLoop(_, _, _, _)
\* the for loop of Wildcard::new over caps[k..]; st holds re, last (index of the
\* next unconsumed character), constraints and names; idx = k - 1
NewLoop(pattern, caps, k, st) ==
  IF k > Len(caps) THEN st
  ELSE
    LET cap  == caps[k]
        lit  == Escape(SubSeq(pattern, st.last, cap.start - 1))
        name == cap.name
    IN
    IF name \in DOMAIN st.constraints
    THEN IF cap.has
         THEN [st EXCEPT !.err = "InvalidConstraint", !.errName = name]
         ELSE NewLoop(pattern, caps, k + 1,
                [st EXCEPT !.re = st.re \o lit \o PlainGroup(st.constraints[name]),
                           !.names = [st.names EXCEPT ![name] = Append(@, k - 1)],
                           !.last = cap.end])
    ELSE
      LET constraint == IF cap.has THEN cap.constraint ELSE DefaultConstraint IN
      NewLoop(pattern, caps, k + 1,
        [st EXCEPT !.re = st.re \o lit \o NamedGroup(name, constraint),
                   !.constraints = (name :> constraint) @@ st.constraints,
                   !.names = (name :> <<>>) @@ st.names,
                   !.last = cap.end])

\* the expression text Wildcard::new builds, or the InvalidConstraint it returns
NewText(pattern) ==
  LET st0 == [re |-> <<"^">>, last |-> 1, constraints |-> <<>>, names |-> <<>>,
              err |-> "", errName |-> <<>>]
      st  == NewLoop(pattern, CapturesIter(pattern, 1), 1, st0)
  IN IF st.err # "" THEN st
     ELSE [st EXCEPT !.re = st.re \o Escape(SubSeq(pattern, st.last, Len(pattern)))
                                  \o <<"$">>]

(***************************************************************************)
(* regex::Regex::new: the parser of the regex crate.                       *)
(* A parsed expression is a tree of records:                               *)
(*   set (one character of cs), bol (^), eol ($), cat, alt,                *)
(*   rep (min 0 or 1; many = unbounded, else at most one; greedy or lazy), *)
(*   grp (g = capture index, 0 when non-capturing).                        *)
(* The parse state ps numbers the capture groups in the order of their     *)
(* opening parentheses (ng = groups so far) and records the named ones     *)
(* (gn: name -> index).  Syntax no template of the model can produce       *)
(* (classes, flags, \b and the like) is rejected.                          *)
(***************************************************************************)
\* . matches any character except a line feed
DotChars == AllChars \ {"\n"}

ParseError(i) == [ok |-> FALSE, node |-> [k |-> "cat", xs |-> <<>>], pos |-> i,
                  ps |-> [ng |-> 0, gn |-> <<>>]]

Parsed(node, i, ps) == [ok |-> TRUE, node |-> node, pos |-> i, ps |-> ps]

\* a capture name: starts with a letter or underscore, goes on with
\* letters, digits, underscore, '.', '[' or ']'
ValidGroupName(name) ==
  /\ name # <<>>
  /\ name[1] \in Letters \cup {"_"}
  /\ \A j \in 2..Len(name) : name[j] \in WordChars \cup {".", "[", "]"}

RECURSIVE NTimes(_, _)
\* x repeated n times
NTimes(x, n) == IF n = 0 THEN <<>> ELSE <<x>> \o NTimes(x, n - 1)

RECURSIVE UpTo(_, _)
\* x at most n times, greedy: (x(x(..)?)?)?
UpTo(x, n) ==
  IF n = 0 THEN [k |-> "cat", xs |-> <<>>]
  ELSE [k |-> "rep", x |-> [k |-> "cat", xs |-> <<x, UpTo(x, n - 1)>>],
        min |-> 0, many |-> FALSE, greedy |-> TRUE]

RECURSIVE DecimalOf(_)
\* the value of a string of digits
DecimalOf(ds) ==
  IF ds = <<>> THEN 0
  ELSE 10 * DecimalOf(SubSeq(ds, 1, Len(ds) - 1))
       + (CHOOSE n \in 0..9 : <<"0", "1", "2", "3", "4", "5", "6", "7", "8", "9">>[n + 1]
                                = ds[Len(ds)])

RECURSIVE ParseQuantifiers(_, _)
\* the repetition operators that follow the atom parsed in a
ParseQuantifiers(re, a) ==
  LET i == a.pos IN
  IF i > Len(re) THEN a
  ELSE IF re[i] \in {"*", "+", "?"} THEN
    LET lazy == i + 1 <= Len(re) /\ re[i + 1] = "?"
        node == [k |-> "rep", x |-> a.node,
                 min |-> IF re[i] = "+" THEN 1 ELSE 0,
                 many |-> re[i] # "?", greedy |-> ~lazy]
    IN ParseQuantifiers(re, Parsed(node, IF lazy THEN i + 2 ELSE i + 1, a.ps))
  ELSE IF re[i] = "{" THEN
    LET e  == RepetitionEnd(re, i)
        d1 == SkipIn(re, i + 1, Digits)
        lo == DecimalOf(SubSeq(re, i + 1, d1 - 1))
        hi == IF re[d1] = "," THEN DecimalOf(SubSeq(re, d1 + 1, e - 2)) ELSE lo
    IN IF e = 0 \/ hi < lo THEN ParseError(i)
       ELSE ParseQuantifiers(re,
              Parsed([k |-> "cat", xs |-> NTimes(a.node, lo) \o <<UpTo(a.node, hi - lo)>>],
                     e, a.ps))
  ELSE a

\* the opening of the group at index i: the index its body starts at, the parse
\* state inside it and its capture index g (0 for a non-capturing group)
GroupHeader(re, i, ps) ==
  LET At(j, ch) == j <= Len(re) /\ re[j] = ch
      named == At(i + 1, "?") /\ (At(i + 2, "<") \/ (At(i + 2, "P") /\ At(i + 3, "<")))
      n0    == IF At(i + 2, "<") THEN i + 3 ELSE i + 4
      n1    == SkipIn(re, n0, AllChars \ {">"})
      name  == SubSeq(re, n0, n1 - 1)
  IN
  IF named THEN
    IF n1 > Len(re) \/ ~ValidGroupName(name) \/ name \in DOMAIN ps.gn
    THEN [ok |-> FALSE, body |-> n0, ps |-> ps, g |-> 0]
    ELSE [ok |-> TRUE, body |-> n1 + 1, g |-> ps.ng + 1,
          ps |-> [ng |-> ps.ng + 1, gn |-> (name :> (ps.ng + 1)) @@ ps.gn]]
  ELSE IF At(i + 1, "?") THEN
    IF At(i + 2, ":") THEN [ok |-> TRUE, body |-> i + 3, ps |-> ps, g |-> 0]
    ELSE [ok |-> FALSE, body |-> i, ps |-> ps, g |-> 0]
  ELSE [ok |-> TRUE, body |-> i + 1, g |-> ps.ng + 1,
        ps |-> [ps EXCEPT !.ng = ps.ng + 1]]

\* the closing of group g whose body parsed as b
GroupClose(re, g, b) ==
  IF ~b.ok THEN b
  ELSE IF b.pos > Len(re) \/ re[b.pos] # ")" THEN ParseError(b.pos)
  ELSE Parsed([k |-> "grp", g |-> g, x |-> b.node], b.pos + 1, b.ps)

\* an atom that is not a group, at index i
SimpleAtom(re, i, ps) ==
  LET c == re[i] IN
  IF c = "." THEN Parsed([k |-> "set", cs |-> DotChars], i + 1, ps)
  ELSE IF c = "^" THEN Parsed([k |-> "bol"], i + 1, ps)
  ELSE IF c = "$" THEN Parsed([k |-> "eol"], i + 1, ps)
  ELSE IF c = "\\" THEN
    IF i + 1 > Len(re) THEN ParseError(i)
    ELSE IF re[i + 1] = "d" THEN Parsed([k |-> "set", cs |-> Digits], i + 2, ps)
    ELSE IF re[i + 1] = "w" THEN Parsed([k |-> "set", cs |-> WordChars], i + 2, ps)
    ELSE IF re[i + 1] = "s" THEN Parsed([k |-> "set", cs |-> Spaces], i + 2, ps)
    ELSE IF re[i + 1] \in MetaChars
      THEN Parsed([k |-> "set", cs |-> {re[i + 1]}], i + 2, ps)
    ELSE ParseError(i)
  ELSE IF c \in {"*", "+", "?", "{"} THEN ParseError(i)
  ELSE Parsed([k |-> "set", cs |-> {c}], i + 1, ps)

\* the atom parsed in a, with the repetition operators that follow it
Quantified(re, a) == IF a.ok THEN ParseQuantifiers(re, a) ELSE a

\* a concatenation that starts with a and goes on with r
CatJoin(a, r) ==
  IF ~r.ok THEN r
  ELSE Parsed([k |-> "cat", xs |-> <<a.node>> \o r.node.xs], r.pos, r.ps)

\* an alternation whose first branch is c and whose other branches are r
AltJoin(c, r) ==
  IF ~r.ok THEN r
  ELSE Parsed([k |-> "alt",
               xs |-> <<c.node>> \o (IF r.node.k = "alt" THEN r.node.xs ELSE <<r.node>>)],
              r.pos, r.ps)

RECURSIVE ParseAlt(_, _, _)
RECURSIVE ParseCat(_, _, _)
RECURSIVE ParseAtom(_, _, _)
RECURSIVE ParseGroup(_, _)
RECURSIVE CatRest(_, _)
RECURSIVE AltRest(_, _)

\* the group opened as h
ParseGroup(re, h) ==
  IF ~h.ok THEN ParseError(h.body)
  ELSE GroupClose(re, h.g, ParseAlt(re, h.body, h.ps))

ParseAtom(re, i, ps) ==
  IF re[i] = "(" THEN ParseGroup(re, GroupHeader(re, i, ps))
  ELSE SimpleAtom(re, i, ps)

\* what follows the quantified atom a in a concatenation
CatRest(re, a) == IF ~a.ok THEN a ELSE CatJoin(a, ParseCat(re, a.pos, a.ps))

\* a concatenation: up to the end, a '|' or a ')'
ParseCat(re, i, ps) ==
  IF i > Len(re) \/ re[i] \in {"|", ")"}
  THEN Parsed([k |-> "cat", xs |-> <<>>], i, ps)
  ELSE CatRest(re, Quantified(re, ParseAtom(re, i, ps)))

\* what follows the branch c of an alternation
AltRest(re, c) ==
  IF ~c.ok THEN c
  ELSE IF c.pos <= Len(re) /\ re[c.pos] = "|"
    THEN AltJoin(c, ParseAlt(re, c.pos + 1, c.ps))
  ELSE c

\* an alternation: up to the end or a ')'
ParseAlt(re, i, ps) == AltRest(re, ParseCat(re, i, ps))

\* regex::Regex::new(re): ok is FALSE for a regex::Error; text is Regex::as_str()
RegexNew(re) ==
  LET r == ParseAlt(re, 1, [ng |-> 0, gn |-> <<>>]) IN
  IF r.ok /\ r.pos > Len(re)
  THEN [ok |-> TRUE, text |-> re, node |-> r.node, ng |-> r.ps.ng, gn |-> r.ps.gn]
  ELSE [ok |-> FALSE, text |-> re, node |-> [k |-> "cat", xs |-> <<>>], ng |-> 0,
        gn |-> <<>>]

(***************************************************************************)
(* Regex::captures: the leftmost-first match.  MatchK matches the sequence *)
(* todo of expressions from offset i of s (i characters consumed), trying  *)
(* the choices in the priority order of the expression and keeping the     *)
(* first that lets all of todo match.  caps[g] is <<start, end>> of        *)
(* group g, <<-1, -1>> while the group has not taken part.                 *)
(***************************************************************************)
NoMatch == [ok |-> FALSE, caps |-> <<>>, start |-> 0, end |-> 0]

RECURSIVE MatchK(_, _, _, _)
RECURSIVE MatchAlt(_, _, _, _, _)

\* the first alternative of alts that lets rest match
MatchAlt(s, alts, rest, i, caps) ==
  IF alts = <<>> THEN NoMatch
  ELSE LET r == MatchK(s, <<Head(alts)>> \o rest, i, caps) IN
       IF r.ok THEN r ELSE MatchAlt(s, Tail(alts), rest, i, caps)

MatchK(s, todo, i, caps) ==
  IF todo = <<>> THEN [ok |-> TRUE, caps |-> caps, start |-> 0, end |-> i]
  ELSE
    LET h    == Head(todo)
        rest == Tail(todo)
    IN
    CASE h.k = "set" ->
           IF i < Len(s) /\ s[i + 1] \in h.cs THEN MatchK(s, rest, i + 1, caps)
           ELSE NoMatch
      [] h.k = "bol" -> IF i = 0 THEN MatchK(s, rest, i, caps) ELSE NoMatch
      [] h.k = "eol" -> IF i = Len(s) THEN MatchK(s, rest, i, caps) ELSE NoMatch
      [] h.k = "cat" -> MatchK(s, h.xs \o rest, i, caps)
      [] h.k = "alt" -> MatchAlt(s, h.xs, rest, i, caps)
      [] h.k = "grp" ->
           IF h.g = 0 THEN MatchK(s, <<h.x>> \o rest, i, caps)
           ELSE MatchK(s, <<h.x, [k |-> "close", g |-> h.g, from |-> i]>> \o rest,
                       i, caps)
      [] h.k = "close" -> MatchK(s, rest, i, [caps EXCEPT ![h.g] = <<h.from, i>>])
      [] h.k = "progress" -> IF i > h.at THEN MatchK(s, rest, i, caps) ELSE NoMatch
      [] h.k = "rep" ->
           IF h.min = 1
           THEN MatchK(s, <<h.x, [h EXCEPT !.min = 0]>> \o rest, i, caps)
           ELSE
             LET more == IF h.many
                         THEN <<h.x, [k |-> "progress", at |-> i], h>> \o rest
                         ELSE <<h.x>> \o rest
                 first  == IF h.greedy THEN more ELSE rest
                 second == IF h.greedy THEN rest ELSE more
                 r == MatchK(s, first, i, caps)
             IN IF r.ok THEN r ELSE MatchK(s, second, i, caps)

RECURSIVE CapturesFrom(_, _, _)
\* the match at the least start offset >= i0
CapturesFrom(prog, s, i0) ==
  IF i0 > Len(s) THEN NoMatch
  ELSE LET r == MatchK(s, <<prog.node>>, i0, [g \in 1..prog.ng |-> <<-1, -1>>]) IN
       IF r.ok THEN [r EXCEPT !.start = i0] ELSE CapturesFrom(prog, s, i0 + 1)

\* Regex::captures(s)
Captures(prog, s) == CapturesFrom(prog, s, 0)

\* Captures::get(g): the text of group g, or <<FALSE, "">> for None
GroupGet(cap, s, g) ==
  IF g = 0 THEN [some |-> TRUE, text |-> SubSeq(s, cap.start + 1, cap.end)]
  ELSE IF g > Len(cap.caps) \/ cap.caps[g][1] < 0 THEN [some |-> FALSE, text |-> <<>>]
  ELSE [some |-> TRUE, text |-> SubSeq(s, cap.caps[g][1] + 1, cap.caps[g][2])]

\* Captures::name(name)
GroupName(prog, cap, s, name) ==
  IF name \in DOMAIN prog.gn THEN GroupGet(cap, s, prog.gn[name])
  ELSE [some |-> FALSE, text |-> <<>>]

(***************************************************************************)
(* Wildcard                                                                *)
(***************************************************************************)
\* the value of a field that an outcome does not set
NoProgram == [ok |-> FALSE, text |-> <<>>, node |-> [k |-> "cat", xs |-> <<>>],
              ng |-> 0, gn |-> <<>>]

\* Wildcard::new(pattern): kind is "Ok", "InvalidConstraint" (with name) or
\* "RegexError"; an Ok value holds pattern, re and names
WildcardNew(pattern) ==
  LET t == NewText(pattern) IN
  IF t.err # ""
  THEN [kind |-> "InvalidConstraint", name |-> t.errName, pattern |-> pattern,
        re |-> NoProgram, names |-> <<>>]
  ELSE LET prog == RegexNew(t.re) IN
       IF prog.ok
       THEN [kind |-> "Ok", name |-> <<>>, pattern |-> pattern,
             re |-> prog, names |-> t.names]
       ELSE [kind |-> "RegexError", name |-> <<>>, pattern |-> pattern,
             re |-> NoProgram, names |-> <<>>]

NoMap == [some |-> FALSE, map |-> <<>>]

\* cap.get(d + 1).map_or("", |c| c.as_str())
DupeText(cap, input, d) == GroupGet(cap, input, d + 1).text

\* Wildcard::extract(input): None as soon as a name has no named group or a
\* repeat index holds another text, whatever the order the names are visited in
WildcardExtract(wc, input) ==
  LET cap == Captures(wc.re, input)
      Value(name) == GroupName(wc.re, cap, input, name)
  IN
  IF ~cap.ok THEN NoMap
  ELSE IF \E name \in DOMAIN wc.names :
            \/ ~Value(name).some
            \/ \E j \in DOMAIN wc.names[name] :
                 DupeText(cap, input, wc.names[name][j]) # Value(name).text
  THEN NoMap
  ELSE [some |-> TRUE, map |-> [name \in DOMAIN wc.names |-> Value(name).text]]

(***************************************************************************)
(* WildcardMap                                                             *)
(***************************************************************************)
RECURSIVE ApplyLoopSkipping(_, _, _, _, _)
\* ApplyLoop that leaves out a placeholder whose name the mapping lacks
ApplyLoopSkipping(map, input, caps, k, st) ==
  IF k > Len(caps) THEN st
  ELSE
    LET cap == caps[k] IN
    ApplyLoopSkipping(map, input, caps, k + 1,
      [st EXCEPT !.result = st.result \o SubSeq(input, st.last, cap.start - 1)
                                      \o (IF cap.name \in DOMAIN map THEN map[cap.name]
                                          ELSE <<>>),
                 !.last = cap.end])

RECURSIVE ApplyLoop(_, _, _, _, _)
\* the for loop of WildcardMap::apply over caps[k..]
ApplyLoop(map, input, caps, k, st) ==
  IF k > Len(caps) THEN st
  ELSE
    LET cap == caps[k] IN
    IF cap.name \notin DOMAIN map
    THEN [st EXCEPT !.kind = "MissingName", !.name = cap.name, !.result = <<>>]
    ELSE ApplyLoop(map, input, caps, k + 1,
           [st EXCEPT !.result = st.result \o SubSeq(input, st.last, cap.start - 1)
                                           \o map[cap.name],
                      !.last = cap.end])

\* WildcardMap::apply(input): kind "Ok" with result, or "MissingName" with name
MapApply(map, input) ==
  LET st == ApplyLoop(map, input, CapturesIter(input, 1), 1,
                      [kind |-> "Ok", name |-> <<>>, result |-> <<>>, last |-> 1])
  IN IF st.kind # "Ok" THEN [kind |-> st.kind, name |-> st.name, result |-> <<>>]
     ELSE [kind |-> "Ok", name |-> <<>>,
           result |-> st.result \o SubSeq(input, st.last, Len(input))]

(***************************************************************************)
(* WildcardRule                                                            *)
(***************************************************************************)
\* WildcardRule::new(inputs, outputs): Err when an output does not compile
RuleNew(inputs, outputs) ==
  LET wcs == [j \in DOMAIN outputs |-> WildcardNew(outputs[j])] IN
  IF \E j \in DOMAIN wcs : wcs[j].kind # "Ok"
  THEN [kind |-> "Err", inputs |-> inputs, outputs |-> <<>>]
  ELSE [kind |-> "Ok", inputs |-> inputs, outputs |-> wcs]

NoTask == [some |-> FALSE, inputs |-> <<>>, outputs |-> <<>>, map |-> <<>>]

RECURSIVE MaterializeFrom(_, _, _)
\* the for loop of WildcardRule::materialize over outputs[k..]
MaterializeFrom(rule, path, k) ==
  IF k > Len(rule.outputs) THEN NoTask
  ELSE
    LET m == WildcardExtract(rule.outputs[k], path) IN
    IF ~m.some THEN MaterializeFrom(rule, path, k + 1)
    ELSE
      LET ins  == [j \in DOMAIN rule.inputs |-> MapApply(m.map, rule.inputs[j])]
          outs == [j \in DOMAIN rule.outputs |->
                     MapApply(m.map, rule.outputs[j].pattern)]
      IN IF \E j \in DOMAIN ins : ins[j].kind # "Ok" THEN NoTask
         ELSE IF \E j \in DOMAIN outs : outs[j].kind # "Ok" THEN NoTask
         ELSE [some |-> TRUE,
               inputs |-> [j \in DOMAIN ins |-> ins[j].result],
               outputs |-> [j \in DOMAIN outs |-> outs[j].result],
               map |-> m.map]

\* WildcardRule::materialize(path)
RuleMaterialize(rule, path) == MaterializeFrom(rule, path, 1)

(***************************************************************************)
(* Inputs                                                                  *)
(***************************************************************************)
\* templates are built from at most MaxPieces pieces
MaxPieces == 2

\* candidate strings and paths have at most MaxLen characters
MaxLen == 3

\* render targets, and the templates they are rendered from, are built from at
\* most MaxTargetPieces pieces
MaxTargetPieces == 2

\* templates compiled on their own are built from at most MaxCompilePieces pieces
MaxCompilePieces == 3

\* a rule has at most MaxOutputs output templates and MaxInputs input templates
MaxOutputs == 2

MaxInputs == 1

\* the pieces of a template: literal text and placeholders
Pieces ==
  { <<".">>,
    <<"{", "a", "}">>,
    <<"{", "b", "}">>,
    <<"{", "1", "}">>,
    <<"{", "a", ",", "\\", "d", "+", "}">>,
    <<"{", " ", "a", " ", ",", " ", "y", " ", "}">>,
    <<"{", "a", ",", "(", "x", "|", "y", ")", "}">>,
    <<"{", "b", ",", "x", "{", "2", "}", "}">> }

\* the pieces of a template whose constraint closes the group it is put in
MatchPieces ==
  { <<".">>,
    <<"{", "a", "}">>,
    <<"{", "b", "}">>,
    <<"{", "a", ",", "\\", "d", "+", "}">>,
    <<"{", "a", ",", "x", ")", "|", "(", "y", "}">> }

\* the pieces of a render target
TargetPieces ==
  { <<".">>, <<"{", "a", "}">>, <<"{", "b", "}">>,
    <<"{", " ", "a", " ", ",", " ", "y", " ", "}">> }

\* the templates of a rule
RuleTemplates ==
  { <<"{", "a", "}">>,
    <<"{", "a", "}", ".">>,
    <<"{", "b", "}">>,
    <<"{", "a", "}", "{", "b", "}">> }

\* the characters of a candidate string
CandidateChars == {"x", "y", "1", ".", "\n"}

RECURSIVE SeqsUpTo(_, _)
\* the sequences over S of length at most n
SeqsUpTo(S, n) ==
  IF n = 0 THEN {<<>>}
  ELSE LET shorter == SeqsUpTo(S, n - 1) IN
       shorter \cup {Append(q, x) : q \in shorter, x \in S}

Templates == {Concat(ps) : ps \in SeqsUpTo(Pieces, MaxPieces)}

MatchTemplates == {Concat(ps) : ps \in SeqsUpTo(MatchPieces, MaxPieces)}

CompileTemplates == {Concat(ps) : ps \in SeqsUpTo(Pieces, MaxCompilePieces)}

Targets == {Concat(ps) : ps \in SeqsUpTo(TargetPieces, MaxTargetPieces)}

Candidates == SeqsUpTo(CandidateChars, MaxLen)

RuleOutputs == SeqsUpTo(RuleTemplates, MaxOutputs) \ {<<>>}

RuleInputs == SeqsUpTo(RuleTemplates, MaxInputs)

(***************************************************************************)
(* The state machine: a template is compiled, matched against a candidate, *)
(* and the mapping renders a template; a rule is built and materialized.   *)
(* Every value is immutable once built, so a call depends on its receiver  *)
(* and argument alone and each run makes each call once.                   *)
(***************************************************************************)
VARIABLES pc, wc, input, extracted, target, rendered, rule, path, task

vars == <<pc, wc, input, extracted, target, rendered, rule, path, task>>

NoWildcard == [kind |-> "None", name |-> <<>>, pattern |-> <<>>,
               re |-> NoProgram, names |-> <<>>]

NoRender == [kind |-> "None", name |-> <<>>, result |-> <<>>]

NoRule == [kind |-> "None", inputs |-> <<>>, outputs |-> <<>>]

Init ==
  /\ pc = "start"
  /\ wc = NoWildcard
  /\ input = <<>>
  /\ extracted = NoMap
  /\ target = <<>>
  /\ rendered = NoRender
  /\ rule = NoRule
  /\ path = <<>>
  /\ task = NoTask

\* let wc = Wildcard::new(pattern)
New(pattern) ==
  /\ pc = "start"
  /\ wc' = WildcardNew(pattern)
  /\ pc' = "compiled"
  /\ UNCHANGED <<input, extracted, target, rendered, rule, path, task>>

\* let map = wc.extract(candidate)
Extract(candidate) ==
  /\ pc = "compiled"
  /\ wc.kind = "Ok"
  /\ input' = candidate
  /\ extracted' = WildcardExtract(wc, candidate)
  /\ pc' = "extracted"
  /\ UNCHANGED <<wc, target, rendered, rule, path, task>>

\* map.apply(template)
Apply(template) ==
  /\ pc = "extracted"
  /\ extracted.some
  /\ target' = template
  /\ rendered' = MapApply(extracted.map, template)
  /\ pc' = "rendered"
  /\ UNCHANGED <<wc, input, extracted, rule, path, task>>

\* let rule = WildcardRule::new(inputs, outputs, func)
NewRule(inputs, outputs) ==
  /\ pc = "start"
  /\ rule' = RuleNew(inputs, outputs)
  /\ pc' = "rule"
  /\ UNCHANGED <<wc, input, extracted, target, rendered, path, task>>

\* rule.materialize(p)
Materialize(p) ==
  /\ pc = "rule"
  /\ rule.kind = "Ok"
  /\ path' = p
  /\ task' = RuleMaterialize(rule, p)
  /\ pc' = "task"
  /\ UNCHANGED <<wc, input, extracted, target, rendered, rule>>

Next ==
  \/ \E t \in Templates : New(t)
  \/ \E c \in Candidates : Extract(c)
  \/ \E t \in Targets \cup {wc.pattern} : Apply(t)

\* a template is compiled, matched and rendered
Spec == Init /\ [][Next]_vars

NextCompile == \E t \in CompileTemplates : New(t)

\* templates are only compiled
SpecCompile == Init /\ [][NextCompile]_vars

NextRender ==
  \/ \E t \in Targets : New(t)
  \/ \E c \in Candidates : Extract(c)
  \/ \E t \in Targets : Apply(t)

\* the mapping of a match renders the render targets
SpecRender == Init /\ [][NextRender]_vars

NextMatch ==
  \/ \E t \in MatchTemplates : New(t)
  \/ \E c \in Candidates : Extract(c)

\* templates, some with a constraint that closes its group, are matched
SpecMatch == Init /\ [][NextMatch]_vars

NextRule ==
  \/ \E ins \in RuleInputs, outs \in RuleOutputs : NewRule(ins, outs)
  \/ \E p \in Candidates : Materialize(p)

\* a rule is built and materialized
SpecRule == Init /\ [][NextRule]_vars

(***************************************************************************)
(* What a template says, read off its placeholder occurrences              *)
(***************************************************************************)
Occurrences(t) == CapturesIter(t, 1)

\* the literal text in front of occurrence k
LiteralBefore(t, occ, k) ==
  SubSeq(t, IF k = 1 THEN 1 ELSE occ[k - 1].end, occ[k].start - 1)

\* the literal text behind the last occurrence
LiteralAfter(t, occ) ==
  SubSeq(t, IF occ = <<>> THEN 1 ELSE occ[Len(occ)].end, Len(t))

\* the first occurrence of the name of occurrence k
FirstOccurrence(occ, k) ==
  CHOOSE j \in 1..k :
    /\ occ[j].name = occ[k].name
    /\ \A i \in 1..(j - 1) : occ[i].name # occ[k].name

\* the constraint declared for the name of occurrence k
DeclaredConstraint(occ, k) ==
  LET f == occ[FirstOccurrence(occ, k)] IN
  IF f.has THEN f.constraint ELSE <<".", "+">>

\* the later occurrences of an already seen name that supply a constraint
Redeclared(occ) ==
  {k \in DOMAIN occ : occ[k].has /\ FirstOccurrence(occ, k) < k}

\* the least element of a non-empty set of numbers
Least(S) == CHOOSE k \in S : \A j \in S : k <= j

RECURSIVE CountGroups(_, _)
\* the capturing groups opened in the expression text from index i on
CountGroups(text, i) ==
  IF i > Len(text) THEN 0
  ELSE IF text[i] = "\\" THEN CountGroups(text, i + 2)
  ELSE IF text[i] = "(" /\ ~(i + 2 <= Len(text) /\ text[i + 1] = "?" /\ text[i + 2] = ":")
    THEN 1 + CountGroups(text, i + 1)
  ELSE CountGroups(text, i + 1)

RECURSIVE EmittedGroup(_, _)
\* the index of the capture group emitted for occurrence k: every earlier
\* occurrence opens its own group and the groups of its constraint
EmittedGroup(occ, k) ==
  IF k = 1 THEN 1
  ELSE EmittedGroup(occ, k - 1) + 1 + CountGroups(DeclaredConstraint(occ, k - 1), 1)

\* the text occurrence k matched in the match cap of input
OccurrenceText(occ, cap, s, k) == GroupGet(cap, s, EmittedGroup(occ, k)).text

\* the expression text the template stands for
ExpectedText(t) ==
  LET occ == Occurrences(t) IN
  <<"^">>
  \o Concat([k \in DOMAIN occ |->
               Escape(LiteralBefore(t, occ, k)) \o
               (IF FirstOccurrence(occ, k) = k
                THEN <<"(", "?", "P", "<">> \o occ[k].name \o <<">">>
                ELSE <<"(">>)
               \o DeclaredConstraint(occ, k) \o <<")">>])
  \o Escape(LiteralAfter(t, occ)) \o <<"$">>

\* value is in full a match of the constraint text c
FullMatch(c, value) ==
  LET prog == RegexNew(<<"^", "(", "?", ":">> \o c \o <<")", "$">>)
      cap  == Captures(prog, value)
  IN prog.ok /\ cap.ok /\ cap.start = 0 /\ cap.end = Len(value)

RECURSIVE SplitFrom(_, _, _, _, _)
\* s from index i on is the literal text in front of occurrence k, a full match
\* of the constraint declared for its name, and so on to the end of the template
SplitFrom(t, occ, s, i, k) ==
  IF k > Len(occ) THEN SubSeq(s, i, Len(s)) = LiteralAfter(t, occ)
  ELSE
    LET lit == LiteralBefore(t, occ, k)
        v0  == i + Len(lit)
    IN
    /\ v0 <= Len(s) + 1
    /\ SubSeq(s, i, v0 - 1) = lit
    /\ \E e \in (v0 - 1)..Len(s) :
         /\ FullMatch(DeclaredConstraint(occ, k), SubSeq(s, v0, e))
         /\ SplitFrom(t, occ, s, e + 1, k + 1)

\* t without the whitespace inside its placeholders' braces and around their
\* commas (the only whitespace the templates of the model hold)
Tight(t) == SelectSeq(t, LAMBDA c : c \notin Spaces)

(***************************************************************************)
(* Claims                                                                  *)
(***************************************************************************)
\* C1 (round trip): when the mapping extracted from a candidate renders the
\* template it was extracted with, the result is Ok and equals the candidate.
C1_RoundTrip ==
  (pc = "rendered" /\ target = wc.pattern) =>
    (rendered.kind = "Ok" /\ rendered.result = input)

\* C2 (repeat-name consistency): extract returns a mapping only if every later
\* occurrence of a name matched the text its first occurrence matched.
C2_RepeatConsistency ==
  (pc = "extracted" /\ extracted.some) =>
    LET occ == Occurrences(wc.pattern)
        cap == Captures(wc.re, input)
    IN \A k \in DOMAIN occ :
         OccurrenceText(occ, cap, input, k)
           = OccurrenceText(occ, cap, input, FirstOccurrence(occ, k))

\* C3 (duplicate constraint rejection): new returns InvalidConstraint(n) exactly
\* when a later occurrence of an already seen name supplies a constraint, n
\* being the name of the first such occurrence; otherwise every later
\* occurrence reuses the constraint of the name's first occurrence.
C3_DuplicateConstraint ==
  pc = "compiled" =>
    LET occ == Occurrences(wc.pattern)
        bad == Redeclared(occ)
    IN /\ (wc.kind = "InvalidConstraint") <=> (bad # {})
       /\ bad # {} => wc.name = occ[Least(bad)].name
       /\ wc.kind = "Ok" => wc.re.text = ExpectedText(wc.pattern)

\* C3 witness: a template whose second occurrence of a redeclares a constraint
\* has been rejected with InvalidConstraint("a").
C3_Witness ==
  /\ pc = "compiled"
  /\ wc.kind = "InvalidConstraint"
  /\ wc.name = <<"a">>
  /\ Redeclared(Occurrences(wc.pattern)) = {2}

\* C4 (missing name on render): apply returns Ok exactly when every scanned
\* name is a key of the mapping, the Ok string being the template with each
\* placeholder replaced by its value and the literal text unchanged; otherwise
\* it returns MissingName of the first absent name and no string.
C4_MissingName ==
  pc = "rendered" =>
    LET occ     == Occurrences(target)
        map     == extracted.map
        missing == {k \in DOMAIN occ : occ[k].name \notin DOMAIN map}
    IN /\ (rendered.kind = "Ok") <=> (missing = {})
       /\ missing = {} =>
            rendered.result =
              Concat([k \in DOMAIN occ |->
                        LiteralBefore(target, occ, k) \o map[occ[k].name]])
              \o LiteralAfter(target, occ)
       /\ missing # {} =>
            /\ rendered.kind = "MissingName"
            /\ rendered.name = occ[Least(missing)].name
            /\ rendered.result = <<>>

\* C4 witness: a mapping that holds a and not b has rendered a template that
\* names a and then b, and the outcome is MissingName("b").
C4_Witness ==
  /\ pc = "rendered"
  /\ DOMAIN extracted.map = {<<"a">>}
  /\ target = <<"{", "a", "}", "{", "b", "}">>
  /\ rendered.kind = "MissingName"
  /\ rendered.name = <<"b">>

\* C5 (literal, whole-string matching): extract returns a mapping only if the
\* candidate is exactly the template's literal segments and the text matched
\* at each placeholder occurrence, in template order, with nothing before or
\* after.
C5_WholeString ==
  (pc = "extracted" /\ extracted.some) =>
    LET occ == Occurrences(wc.pattern)
        cap == Captures(wc.re, input)
    IN input =
         Concat([k \in DOMAIN occ |->
                   LiteralBefore(wc.pattern, occ, k)
                   \o OccurrenceText(occ, cap, input, k)])
         \o LiteralAfter(wc.pattern, occ)

\* C6 (constraint enforcement): when extract returns a mapping, every value is
\* in full a match of the constraint declared at its name's first occurrence,
\* and the candidate splits into the literal segments and full matches of the
\* declared constraints (no mapping when no such split exists).
C6_ConstraintEnforced ==
  (pc = "extracted" /\ extracted.some) =>
    LET occ == Occurrences(wc.pattern) IN
    /\ \A k \in DOMAIN occ :
         FullMatch(DeclaredConstraint(occ, k), extracted.map[occ[k].name])
    /\ SplitFrom(wc.pattern, occ, input, 1, 1)

\* C7 (default constraint): the template "{a}" matches every non-empty
\* candidate, line breaks included, mapping a to the whole candidate, and does
\* not match the empty string.
C7_DefaultConstraint ==
  (pc = "extracted" /\ wc.pattern = <<"{", "a", "}">>) =>
    /\ extracted.some <=> (input # <<>>)
    /\ extracted.some => extracted.map = (<<"a">> :> input)

\* C8 (scanner whitespace stripping): a template is scanned with the names and
\* constraint texts of the same template without the whitespace inside its
\* braces and around its commas, and both accept the same candidates.
C8_WhitespaceStripped ==
  LET tight == Tight(wc.pattern)
      occ   == Occurrences(wc.pattern)
      tocc  == Occurrences(tight)
  IN
  /\ pc \in {"compiled", "extracted"} =>
       /\ Len(occ) = Len(tocc)
       /\ \A k \in DOMAIN occ :
            /\ occ[k].name = tocc[k].name
            /\ occ[k].has = tocc[k].has
            /\ occ[k].constraint = tocc[k].constraint
       /\ (wc.kind = "Ok") <=> (WildcardNew(tight).kind = "Ok")
  /\ pc = "extracted" =>
       (extracted.some <=> WildcardExtract(WildcardNew(tight), input).some)

\* C9 (rule materialization order): materialize returns a task exactly when the
\* path matches some output template, and the task holds the mapping of the
\* first output template that matches and every input and output template
\* rendered through it.
C9_FirstMatchWins ==
  pc = "task" =>
    LET Matched(k) == WildcardExtract(rule.outputs[k], path)
        matching   == {k \in DOMAIN rule.outputs : Matched(k).some}
    IN /\ task.some <=> (matching # {})
       /\ task.some =>
            LET m == Matched(Least(matching)).map IN
            /\ task.map = m
            /\ task.inputs = [j \in DOMAIN rule.inputs |->
                                MapApply(m, rule.inputs[j]).result]
            /\ task.outputs = [j \in DOMAIN rule.outputs |->
                                 MapApply(m, rule.outputs[j].pattern).result]

\* C10 (compile totality for unconstrained templates): a template whose
\* placeholders all lack a constraint compiles, whatever its names (a leading
\* digit included), and a RegexError comes only with an explicit constraint.
C10_CompileTotal ==
  pc = "compiled" =>
    LET occ == Occurrences(wc.pattern) IN
    /\ (\A k \in DOMAIN occ : ~occ[k].has) => wc.kind = "Ok"
    /\ wc.kind = "RegexError" => \E k \in DOMAIN occ : occ[k].has
====
